---- MODULE Spec2Model ----
(***************************************************************************)
(* The retrieval-augmented context engine of SnackSage:                   *)
(* backend/services/ragService.js (class RAGService).                      *)
(*                                                                         *)
(* One RAGService instance is modelled: its two fields (documentChunks,   *)
(* initialized), the asynchronous initialize() calls running on it and    *)
(* the asynchronous getContext()/retrieveRelevantChunks() calls.  Node    *)
(* runs one callback at a time, so every action below is the code that    *)
(* runs between two awaits of one call.                                    *)
(*                                                                         *)
(* Vectors are pairs of integers counting tenths: [1,0] is <<10, 0>> and  *)
(* [0.7,0.7] is <<7, 7>>.  A similarity is kept exactly, as the record    *)
(* [nan, num, den2] standing for num / sqrt(den2).                         *)
(***************************************************************************)
EXTENDS Integers, Sequences, FiniteSets

VARIABLES
    documentChunks,   \* this.documentChunks (ragService.js:16)
    initialized,      \* this.initialized    (ragService.js:17)
    build,            \* the initialize() calls, by call number
    query,            \* the getContext() calls, by call number
    request,          \* the GeminiService requests, by request number
    call              \* one call of a pure method: its arguments and its result

vars == <<documentChunks, initialized, build, query, request, call>>

\* How many initialize() calls and getContext() calls one behaviour makes at
\* most, and how many calls of both kinds together.
MaxBuilds == 2
MaxQueries == 2
MaxCalls == 3

Builds == 1..MaxBuilds
Queries == 1..MaxQueries

----------------------------------------------------------------------------
(* The collaborators: the PDF files and the Embedding Provider.            *)
(* A chunk record carries, besides id, text and embedding, the number of  *)
(* the initialize() call that appended it (by): history, read by no        *)
(* action.                                                                 *)

\* The documents initialize() may be pointed at.
Docs == {"empty", "pair", "triple"}

\* The chunk list initialize() gets for a document: the value of
\* this.splitIntoChunks(pdfData.text, 1000, 200) at line 32.  Chunk texts are
\* named by a letter.
PdfChunks(d) ==
    CASE d = "empty"  -> <<>>
      [] d = "pair"   -> <<"a", "d">>
      [] d = "triple" -> <<"a", "b", "c">>

\* What embedContent(text) answers when it answers: result.embedding.values.
EmbeddingValues(text) ==
    CASE text = "a" -> <<10, 0>>
      [] text = "b" -> <<0, 10>>
      [] text = "c" -> <<7, 7>>
      [] text = "d" -> <<5, 0>>
      [] text = "z" -> <<0, 0>>

\* The query strings and the topK values the callers pass.
QueryTexts == {"a"}
TopKs == {-1, 0, 2, 100}

----------------------------------------------------------------------------
(* cosineSimilarity, lines 98-103.                                         *)

Dot(vecA, vecB) == vecA[1] * vecB[1] + vecA[2] * vecB[2]

\* num / sqrt(den2); 0 / 0 is NaN in JavaScript (the dot product of a zero
\* vector is 0, so the numerator is 0 whenever the denominator is).
CosineSimilarity(vecA, vecB) ==
    LET den2 == Dot(vecA, vecA) * Dot(vecB, vecB)
    IN  [nan |-> den2 = 0, num |-> Dot(vecA, vecB), den2 |-> den2]

Abs(x) == IF x < 0 THEN -x ELSE x

\* The sign of s.num / sqrt(s.den2) - t.num / sqrt(t.den2), for two numbers.
\* x |-> x * |x| is increasing, so the two sides are compared squared.
SimSign(s, t) ==
    LET l == s.num * Abs(s.num) * t.den2
        r == t.num * Abs(t.num) * s.den2
    IN  IF l > r THEN 1 ELSE IF l < r THEN -1 ELSE 0

SimEqual(s, t) == s.nan = t.nan /\ (s.nan \/ SimSign(s, t) = 0)

----------------------------------------------------------------------------
(* scores.sort((a, b) => b.similarity - a.similarity), line 122.           *)

\* The comparator, as Array.prototype.sort reads it: the sign of
\* b.similarity - a.similarity, and +0 when that is NaN.
Compare_ascending(a, b) ==
    IF a.similarity.nan \/ b.similarity.nan THEN 0
    ELSE SimSign(a.similarity, b.similarity)

Compare(a, b) ==
    IF a.similarity.nan \/ b.similarity.nan THEN 0
    ELSE SimSign(b.similarity, a.similarity)

\* Insertion of x into the sorted s, after every element that does not have
\* to follow it.
RECURSIVE Insert(_, _)
Insert(s, x) ==
    IF s = <<>> THEN <<x>>
    ELSE IF Compare(s[Len(s)], x) > 0
         THEN Append(Insert(SubSeq(s, 1, Len(s) - 1), x), s[Len(s)])
         ELSE Append(s, x)

RECURSIVE StableSort(_)
StableSort(s) ==
    IF s = <<>> THEN <<>>
    ELSE Insert(StableSort(SubSeq(s, 1, Len(s) - 1)), s[Len(s)])

\* The orders in which s may come back when ties are not kept in place.
RECURSIVE Orderings(_)
Orderings(S) ==
    IF S = {} THEN {<<>>}
    ELSE UNION {{<<x>> \o p : p \in Orderings(S \ {x})} : x \in S}

SortOutcomes_unstable(s) ==
    {[i \in 1..Len(s) |-> s[p[i]]] : p \in
        {p \in Orderings(1..Len(s)) :
            \A i \in 1..(Len(s) - 1) : Compare(s[p[i]], s[p[i + 1]]) <= 0}}

\* Array.prototype.sort is stable and takes no other input than the array and
\* the comparator: one outcome.
SortOutcomes(s) == {StableSort(s)}

\* Array.prototype.slice(0, end): a negative end counts from the end.
Slice(s, end) ==
    LET to == IF end < 0 THEN (IF Len(s) + end < 0 THEN 0 ELSE Len(s) + end)
              ELSE (IF end > Len(s) THEN Len(s) ELSE end)
    IN  SubSeq(s, 1, to)

\* Lines 116-119: every chunk with its similarity to the query embedding.
Scores(queryEmbedding) ==
    [i \in 1..Len(documentChunks) |->
        [id |-> documentChunks[i].id,
         text |-> documentChunks[i].text,
         embedding |-> documentChunks[i].embedding,
         by |-> documentChunks[i].by,
         similarity |-> CosineSimilarity(queryEmbedding, documentChunks[i].embedding)]]

----------------------------------------------------------------------------
(* Number.prototype.toFixed(3), line 137.                                  *)

RECURSIVE GCD(_, _)
GCD(m, n) == IF n = 0 THEN m ELSE GCD(n, m % n)

\* The similarity in thousandths, rounded to the nearest (half away from 0);
\* NaN prints as "NaN".
ToFixed3(s) ==
    IF s.nan THEN [nan |-> TRUE, milli |-> 0]
    ELSE LET n2 == s.num * s.num
             g  == GCD(n2, s.den2)
             p  == n2 \div g
             q  == s.den2 \div g
             k  == CHOOSE k \in 0..1000 :
                      /\ (k = 0 \/ (2 * k - 1) * (2 * k - 1) * q <= 4000000 * p)
                      /\ 4000000 * p < (2 * k + 1) * (2 * k + 1) * q
         IN  [nan |-> FALSE, milli |-> IF s.num < 0 THEN -k ELSE k]

\* Lines 135-138: what getContext hands back for the retrieved chunks.
ContextOf(relevantChunks) ==
    [i \in 1..Len(relevantChunks) |->
        [text |-> relevantChunks[i].text,
         similarity |-> ToFixed3(relevantChunks[i].similarity)]]

----------------------------------------------------------------------------
(* State.                                                                  *)

\* One initialize() call: where it stands (pc), its pdfPath (doc), its local
\* chunks and i, and how it ended (error).  wasReady and overlapped are history:
\* whether the service was ready when the call started, and whether another
\* initialize() call ran during this one.
IdleBuild ==
    [pc |-> "idle", doc |-> "empty", chunks |-> <<>>, i |-> 0, error |-> "none",
     wasReady |-> FALSE, overlapped |-> FALSE]

\* One getContext() call: where it stands (pc), its arguments, and what
\* retrieveRelevantChunks returned (res).  called, afterSuccess and snap are
\* history: whether embedContent was called for it, whether an initialize()
\* call had completed when it started, and the index it was answered from.
IdleQuery ==
    [pc |-> "idle", query |-> "a", topK |-> 0, called |-> FALSE,
     afterSuccess |-> FALSE, snap |-> <<>>, res |-> <<>>]

\* An initialize() call that has started and not yet settled.
Running(b) == build[b].pc \in {"read", "embed", "sleep"}

\* The calls made so far.
Calls ==
    Cardinality({b \in Builds : build[b].pc # "idle"})
        + Cardinality({q \in Queries : query[q].pc # "idle"})

\* How many requests GeminiService serves in one behaviour.
MaxRequests == 2
Requests == 1..MaxRequests

\* A request not yet made, and no pure method called.
\* wasReady, asked, retrieved, retrievalFailed, notInitialized and generated are
\* history: whether the index was ready when the request arrived, whether
\* getContext was called, returned, threw, threw the not-initialized error, and
\* whether generateContent was called.
IdleRequest ==
    [pc |-> "idle", kind |-> "none", query |-> "a", relevantChunks |-> <<>>,
     wasReady |-> FALSE, asked |-> FALSE,
     retrieved |-> FALSE, retrievalFailed |-> FALSE, notInitialized |-> FALSE,
     generated |-> FALSE, outcome |-> "none"]
NoCall == [pc |-> "none"]

\* Lines 8-18: the constructor.
Init ==
    /\ documentChunks = <<>>
    /\ initialized = FALSE
    /\ build = [b \in Builds |-> IdleBuild]
    /\ query = [q \in Queries |-> IdleQuery]
    /\ request = [r \in Requests |-> IdleRequest]
    /\ call = NoCall

----------------------------------------------------------------------------
(* initialize(pdfPath), lines 21-57.                                       *)

\* The call starts: lines 21-26, up to the await of fs.readFile.  Nothing in
\* the code holds a second call back while a first one is running.
\* (Calls are numbered in the order they start.)
Initialize(b, d) ==
    /\ build[b].pc = "idle"
    /\ \A c \in Builds : c < b => build[c].pc # "idle"
    /\ Calls < MaxCalls
    /\ build' = [c \in Builds |->
                    IF c = b
                    THEN [build[b] EXCEPT !.pc = "read", !.doc = d,
                                          !.wasReady = initialized,
                                          !.overlapped = \E o \in Builds : Running(o)]
                    ELSE IF Running(c) THEN [build[c] EXCEPT !.overlapped = TRUE]
                    ELSE build[c]]
    /\ UNCHANGED <<documentChunks, initialized, query, request, call>>

PdfExtracted_emptyNotReady(b) ==
    /\ build[b].pc = "read"
    /\ LET chunks == PdfChunks(build[b].doc)
       IN  IF Len(chunks) = 0
           THEN build' = [build EXCEPT ![b].pc = "done", ![b].chunks = chunks]
           ELSE build' = [build EXCEPT ![b].pc = "embed", ![b].chunks = chunks,
                                       ![b].i = 0]
    /\ UNCHANGED <<documentChunks, initialized, query, request, call>>

\* readFile and pdf() have answered: lines 27-37, up to the await of the first
\* generateEmbedding; with no chunk the loop is skipped and line 50 runs.
PdfExtracted(b) ==
    /\ build[b].pc = "read"
    /\ LET chunks == PdfChunks(build[b].doc)
       IN  IF Len(chunks) = 0
           THEN /\ initialized' = TRUE
                /\ build' = [build EXCEPT ![b].pc = "done", ![b].chunks = chunks]
           ELSE /\ build' = [build EXCEPT ![b].pc = "embed", ![b].chunks = chunks,
                                          ![b].i = 0]
                /\ UNCHANGED initialized
    /\ UNCHANGED <<documentChunks, query, request, call>>

PdfFailed_clearsReady(b) ==
    /\ build[b].pc = "read"
    /\ build' = [build EXCEPT ![b].pc = "rejected", ![b].error = "read"]
    /\ initialized' = FALSE
    /\ UNCHANGED <<documentChunks, query, request, call>>

\* readFile or pdf() has thrown: lines 26-27, 53-55.
PdfFailed(b) ==
    /\ build[b].pc = "read"
    /\ build' = [build EXCEPT ![b].pc = "rejected", ![b].error = "read"]
    /\ UNCHANGED <<documentChunks, initialized, query, request, call>>

EmbeddingReturned_idFromIndexLength(b) ==
    /\ build[b].pc = "embed"
    /\ LET i == build[b].i
           chunks == build[b].chunks
       IN  /\ documentChunks' = Append(documentChunks,
                                    [id |-> Len(documentChunks), text |-> chunks[i + 1],
                                     embedding |-> EmbeddingValues(chunks[i + 1]),
                                     by |-> b])
           /\ IF i < Len(chunks) - 1
              THEN /\ build' = [build EXCEPT ![b].pc = "sleep"]
                   /\ UNCHANGED initialized
              ELSE /\ initialized' = TRUE
                   /\ build' = [build EXCEPT ![b].pc = "done"]
    /\ UNCHANGED <<query, request, call>>

EmbeddingReturned_noSleep(b) ==
    /\ build[b].pc = "embed"
    /\ LET i == build[b].i
           chunks == build[b].chunks
       IN  /\ documentChunks' = Append(documentChunks,
                                    [id |-> i, text |-> chunks[i + 1],
                                     embedding |-> EmbeddingValues(chunks[i + 1]),
                                     by |-> b])
           /\ IF i < Len(chunks) - 1
              THEN /\ build' = [build EXCEPT ![b].i = i + 1]
                   /\ UNCHANGED initialized
              ELSE /\ initialized' = TRUE
                   /\ build' = [build EXCEPT ![b].pc = "done"]
    /\ UNCHANGED <<query, request, call>>

\* generateEmbedding(chunks[i]) has answered: lines 37-50, up to the await of
\* sleep, or to the end of the call after the last chunk.
EmbeddingReturned(b) ==
    /\ build[b].pc = "embed"
    /\ LET i == build[b].i
           chunks == build[b].chunks
       IN  /\ documentChunks' = Append(documentChunks,
                                    [id |-> i, text |-> chunks[i + 1],
                                     embedding |-> EmbeddingValues(chunks[i + 1]),
                                     by |-> b])
           /\ IF i < Len(chunks) - 1
              THEN /\ build' = [build EXCEPT ![b].pc = "sleep"]
                   /\ UNCHANGED initialized
              ELSE /\ initialized' = TRUE
                   /\ build' = [build EXCEPT ![b].pc = "done"]
    /\ UNCHANGED <<query, request, call>>

EmbeddingFailed_clearsReady(b) ==
    /\ build[b].pc = "embed"
    /\ build' = [build EXCEPT ![b].pc = "rejected", ![b].error = "embedding"]
    /\ initialized' = FALSE
    /\ UNCHANGED <<documentChunks, query, request, call>>

\* generateEmbedding(chunks[i]) has thrown: lines 37, 91-93, 53-55.
EmbeddingFailed(b) ==
    /\ build[b].pc = "embed"
    /\ build' = [build EXCEPT ![b].pc = "rejected", ![b].error = "embedding"]
    /\ UNCHANGED <<documentChunks, initialized, query, request, call>>

\* sleep(100) is over: lines 46, 36-37, up to the await of the next
\* generateEmbedding.
SleepElapsed(b) ==
    /\ build[b].pc = "sleep"
    /\ build' = [build EXCEPT ![b].pc = "embed", ![b].i = build[b].i + 1]
    /\ UNCHANGED <<documentChunks, initialized, query, request, call>>

----------------------------------------------------------------------------
(* getContext(query, topK) and retrieveRelevantChunks, lines 106-139.      *)

NotInitialized_emptyIndex == documentChunks = <<>>

\* Line 107.
NotInitialized == ~initialized

\* The call starts: lines 132-133, 106-113, up to the throw of line 108 or to
\* the await of generateEmbedding(query).
GetContext(q, text, topK) ==
    /\ query[q].pc = "idle"
    /\ \A r \in Queries : r < q => query[r].pc # "idle"
    /\ Calls < MaxCalls
    /\ query' = [query EXCEPT ![q] =
                    [@ EXCEPT !.query = text, !.topK = topK,
                              !.afterSuccess = \E b \in Builds : build[b].pc = "done",
                              !.pc = IF NotInitialized THEN "notInitialized" ELSE "embed",
                              !.called = ~NotInitialized]]
    /\ UNCHANGED <<documentChunks, initialized, build, request, call>>

QueryEmbeddingReturned_sortsInPlace(q) ==
    /\ query[q].pc = "embed"
    /\ LET queryEmbedding == EmbeddingValues(query[q].query)
       IN  \E sorted \in SortOutcomes(Scores(queryEmbedding)) :
             LET relevantChunks == Slice(sorted, query[q].topK)
             IN  /\ query' = [query EXCEPT ![q] =
                        [@ EXCEPT !.pc = "done",
                                  !.snap = documentChunks,
                                  !.res = relevantChunks]]
                 /\ documentChunks' = [i \in 1..Len(sorted) |->
                        [id |-> sorted[i].id, text |-> sorted[i].text,
                         embedding |-> sorted[i].embedding, by |-> sorted[i].by]]
    /\ UNCHANGED <<initialized, build, request, call>>

\* generateEmbedding(query) has answered: lines 113-123; res is what
\* retrieveRelevantChunks returns, and getContext returns ContextOf(res).
QueryEmbeddingReturned(q) ==
    /\ query[q].pc = "embed"
    /\ LET queryEmbedding == EmbeddingValues(query[q].query)
       IN  \E sorted \in SortOutcomes(Scores(queryEmbedding)) :
             LET relevantChunks == Slice(sorted, query[q].topK)
             IN  query' = [query EXCEPT ![q] =
                    [@ EXCEPT !.pc = "done",
                              !.snap = documentChunks,
                              !.res = relevantChunks]]
    /\ UNCHANGED <<documentChunks, initialized, build, request, call>>

QueryEmbeddingFailed_clearsReady(q) ==
    /\ query[q].pc = "embed"
    /\ query' = [query EXCEPT ![q].pc = "embedError"]
    /\ initialized' = FALSE
    /\ UNCHANGED <<documentChunks, build, request, call>>

\* generateEmbedding(query) has thrown: lines 113, 91-93, 125-128.
QueryEmbeddingFailed(q) ==
    /\ query[q].pc = "embed"
    /\ query' = [query EXCEPT ![q].pc = "embedError"]
    /\ UNCHANGED <<documentChunks, initialized, build, request, call>>

----------------------------------------------------------------------------

Next ==
    \/ \E b \in Builds, d \in Docs : Initialize(b, d)
    \/ \E b \in Builds : PdfExtracted(b)
    \/ \E b \in Builds : PdfFailed(b)
    \/ \E b \in Builds : EmbeddingReturned(b)
    \/ \E b \in Builds : EmbeddingFailed(b)
    \/ \E b \in Builds : SleepElapsed(b)
    \/ \E q \in Queries, text \in QueryTexts, topK \in TopKs : GetContext(q, text, topK)
    \/ \E q \in Queries : QueryEmbeddingReturned(q)
    \/ \E q \in Queries : QueryEmbeddingFailed(q)

Spec == Init /\ [][Next]_vars

----------------------------------------------------------------------------
(* Vocabulary of the properties.                                           *)

Answered(q) == query[q].pc = "done"

Min(m, n) == IF m < n THEN m ELSE n

\* An initialize() call that rejected because an embedding call failed.
EmbeddingAborted(b) == build[b].pc = "rejected" /\ build[b].error = "embedding"

\* The records one build of its document makes: one per chunk, in chunk order.
RecordsOf(b, chunks) ==
    [i \in 1..Len(chunks) |->
        [id |-> i - 1, text |-> chunks[i],
         embedding |-> EmbeddingValues(chunks[i]), by |-> b]]

\* The index without the records that call b appended.
WithoutBuild(s, b) ==
    LET NotBy(r) == r.by # b IN SelectSeq(s, NotBy)

Embeddings(s) == [i \in 1..Len(s) |-> s[i].embedding]

\* The chunk a scored record was made from.
ChunkOf(r) == [id |-> r.id, text |-> r.text, embedding |-> r.embedding, by |-> r.by]

----------------------------------------------------------------------------
(* C1 - not ready fails fast.                                              *)

\* C1: a getContext call made while no initialize call has completed fails
\* with the not-initialized error: the Embedding Provider is not called for
\* it and it returns no result sequence.
C1_NotReadyFailsFast ==
    \A q \in Queries :
        (query[q].pc # "idle" /\ ~query[q].afterSuccess)
            => /\ query[q].pc = "notInitialized"
               /\ ~query[q].called
               /\ query[q].res = <<>>

\* A call refused while a build has already appended chunks.
C1_Witness ==
    \E q \in Queries, b \in Builds :
        /\ query[q].pc = "notInitialized"
        /\ ~query[q].afterSuccess
        /\ build[b].pc \in {"embed", "sleep", "rejected"}
        /\ documentChunks # <<>>

----------------------------------------------------------------------------
(* C2 - a failed rebuild and the prior index.                              *)

\* C2: when an embedding call fails during an initialize call that rebuilds a
\* ready index (and no other initialize call ran meanwhile), the index after
\* the failed call is the pre-rebuild chunk sequence: it holds none of the
\* records the failed call appended.
C2_FailedRebuildKeepsPriorIndex ==
    [][\A b \in Builds :
          (/\ build[b].pc = "embed"
           /\ EmbeddingAborted(b)'
           /\ build[b].wasReady
           /\ ~build[b].overlapped)
              => documentChunks' = WithoutBuild(documentChunks', b)]_vars

----------------------------------------------------------------------------
(* C3 - partial indexes are never exposed.                                 *)

\* C3: no query is answered with a chunk appended by an initialize call that
\* had rejected when the answer was computed.
C3_NoChunkOfFailedBuild ==
    [][\A q \in Queries :
          (query[q].pc = "embed" /\ Answered(q)')
              => \A i \in 1..Len(query'[q].res) :
                    build[query'[q].res[i].by].pc # "rejected"]_vars

----------------------------------------------------------------------------
(* C4 - rebuild replaces.                                                  *)

\* C4: when an initialize call completes successfully (no other initialize
\* call having run meanwhile), the index holds exactly the records of that
\* build: one per chunk of its document, in chunk order.
C4_RebuildReplaces ==
    [][\A b \in Builds :
          (/\ Running(b)
           /\ build'[b].pc = "done"
           /\ ~build[b].overlapped)
              => documentChunks' = RecordsOf(b, build'[b].chunks)]_vars

----------------------------------------------------------------------------
(* C5 - initialize calls are serialized.                                   *)

\* C5: at most one initialize call is between its start and its completion,
\* and the records of two calls never interleave in the index.
C5_BuildsSerialized ==
    /\ Cardinality({b \in Builds : Running(b)}) <= 1
    /\ \A i, j, k \in 1..Len(documentChunks) :
          (i < j /\ j < k /\ documentChunks[i].by = documentChunks[k].by)
              => documentChunks[j].by = documentChunks[i].by

----------------------------------------------------------------------------
(* C6, C7 - the topK boundary.                                             *)

\* C6: a query answered with topK <= 0 returns the empty sequence.
C6_NonPositiveTopKIsEmpty ==
    \A q \in Queries :
        (Answered(q) /\ query[q].topK <= 0) => query[q].res = <<>>

\* C7: the result has at most min(topK, N) elements (none when that is not
\* positive, a length being at least 0), and with topK > N it holds each
\* indexed chunk exactly once.
C7_LengthBound ==
    \A q \in Queries :
        Answered(q) =>
            LET N == Len(query[q].snap)
                bound == Min(query[q].topK, N)
                res == query[q].res
            IN  /\ Len(res) <= (IF bound < 0 THEN 0 ELSE bound)
                /\ query[q].topK > N =>
                      /\ Len(res) = N
                      /\ \A i \in 1..N :
                            Cardinality({m \in 1..N : ChunkOf(res[m]) = query[q].snap[i]})
                              = Cardinality({m \in 1..N : query[q].snap[m] = query[q].snap[i]})

----------------------------------------------------------------------------
(* C8 - the ranking.                                                       *)

\* C8: the result is ordered by similarity descending, chunks of equal
\* similarity by ascending chunk id, and it is the head of that ordering of
\* all indexed chunks: fewer than j indexed chunks are strictly more similar
\* than the j-th chunk returned.
C8_RankedBySimilarityThenId ==
    \A q \in Queries :
        Answered(q) =>
            LET res == query[q].res
                all == [i \in 1..Len(query[q].snap) |->
                          CosineSimilarity(EmbeddingValues(query[q].query),
                                           query[q].snap[i].embedding)]
            IN  /\ \A i, j \in 1..Len(res) :
                      i < j =>
                          \/ SimSign(res[i].similarity, res[j].similarity) > 0
                          \/ /\ SimSign(res[i].similarity, res[j].similarity) = 0
                             /\ res[i].id <= res[j].id
                /\ \A j \in 1..Len(res) :
                      Cardinality({m \in 1..Len(all) : SimSign(all[m], res[j].similarity) > 0})
                          < j

----------------------------------------------------------------------------
(* C9 - determinism of the ranking.                                        *)

----------------------------------------------------------------------------
(* C10 - the end-to-end example.                                           *)

\* The index of embeddings [1,0], [0,1], [0.7,0.7], asked for [1,0], top 2.
C10_Case(q) ==
    /\ Answered(q)
    /\ Embeddings(query[q].snap) = << <<10, 0>>, <<0, 10>>, <<7, 7>> >>
    /\ EmbeddingValues(query[q].query) = <<10, 0>>
    /\ query[q].topK = 2

\* C10: that query returns the [1,0] chunk (similarity 1.000), then the
\* [0.7,0.7] chunk (similarity 0.707), and not the [0,1] chunk.
C10_EndToEndExample ==
    \A q \in Queries :
        C10_Case(q) =>
            /\ Embeddings(query[q].res) = << <<10, 0>>, <<7, 7>> >>
            /\ ContextOf(query[q].res) =
                  << [text |-> "a", similarity |-> [nan |-> FALSE, milli |-> 1000]],
                     [text |-> "c", similarity |-> [nan |-> FALSE, milli |-> 707]] >>

C10_Witness == \E q \in Queries : C10_Case(q)

----------------------------------------------------------------------------
(* Queries on a ready index: the service after one initialize() call has   *)
(* completed alone, for every short chunk list, the Embedding Provider     *)
(* answering the zero vector for the text "z".                             *)

\* The longest chunk list of that build.
MaxIndex == 2

ReadyTexts == {"a", "c", "z"}
ReadyChunkLists == UNION {[1..n -> ReadyTexts] : n \in 0..MaxIndex}
ReadyQueryTexts == QueryTexts \cup {"z"}

\* The state at the end of initialize() (line 50) for the chunk list chunks.
InitReady ==
    \E chunks \in ReadyChunkLists :
        /\ documentChunks = [i \in 1..Len(chunks) |->
                                [id |-> i - 1, text |-> chunks[i],
                                 embedding |-> EmbeddingValues(chunks[i]), by |-> 1]]
        /\ initialized = TRUE
        /\ build = [b \in Builds |->
                      IF b = 1
                      THEN [IdleBuild EXCEPT !.pc = "done", !.doc = "given",
                                             !.chunks = chunks,
                                             !.i = IF chunks = <<>> THEN 0
                                                   ELSE Len(chunks) - 1]
                      ELSE IdleBuild]
        /\ query = [q \in Queries |-> IdleQuery]
        /\ request = [r \in Requests |-> IdleRequest]
        /\ call = NoCall

NextReady ==
    \/ \E q \in Queries, text \in ReadyQueryTexts, topK \in TopKs :
          GetContext(q, text, topK)
    \/ \E q \in Queries : QueryEmbeddingReturned(q)
    \/ \E q \in Queries : QueryEmbeddingFailed(q)

SpecReady == InitReady /\ [][NextReady]_vars

----------------------------------------------------------------------------
(* C11 - vectors of zero magnitude.                                        *)

ZeroMagnitude(vec) == Dot(vec, vec) = 0

\* C11: a returned chunk whose vector, or whose query's vector, has zero
\* magnitude carries the similarity 0 (a number, not the outcome of 0 / 0),
\* and the returned chunks of non-zero magnitude are in descending order of
\* similarity.
C11_ZeroMagnitudeIsZero ==
    \A q \in Queries :
        Answered(q) =>
            LET res == query[q].res
                qe == EmbeddingValues(query[q].query)
            IN  /\ \A i \in 1..Len(res) :
                      (ZeroMagnitude(qe) \/ ZeroMagnitude(res[i].embedding))
                          => ~res[i].similarity.nan /\ res[i].similarity.num = 0
                /\ \A i, j \in 1..Len(res) :
                      (/\ i < j
                       /\ ~res[i].similarity.nan
                       /\ ~res[j].similarity.nan)
                          => SimSign(res[i].similarity, res[j].similarity) >= 0

----------------------------------------------------------------------------
(* formatContextForPrompt(chunks), lines 142-150.                          *)
(* A string is the sequence of its pieces: the literal parts of the        *)
(* template, the printed index, the similarity as getContext printed it,  *)
(* and the chunk text.  The argument is a JavaScript value: an array, or  *)
(* null / undefined.                                                       *)

Absent == [isArray |-> FALSE, items |-> <<>>]
ArrayOf(items) == [isArray |-> TRUE, items |-> items]

Lit(str) == [piece |-> "literal", val |-> str]
Num(n) == [piece |-> "number", val |-> n]
Sim(x) == [piece |-> "similarity", val |-> x]
Txt(t) == [piece |-> "text", val |-> t]

\* Line 144.
Sentinel == <<Lit("No relevant context found in the knowledge base.")>>

\* Line 149: the argument of join.
Separator == <<Lit("\n\n---\n\n")>>

Block_zeroBased(chunk, index) ==
    <<Lit("[Context "), Num(index), Lit("] (Relevance: "),
      Sim(chunk.similarity), Lit(")\n"), Txt(chunk.text)>>

\* Line 148: the template literal, for the element at index (from 0).
Block(chunk, index) ==
    <<Lit("[Context "), Num(index + 1), Lit("] (Relevance: "),
      Sim(chunk.similarity), Lit(")\n"), Txt(chunk.text)>>

\* Array.prototype.join: the strings with sep between them.
RECURSIVE Join(_, _)
Join(strs, sep) ==
    IF Len(strs) = 0 THEN <<>>
    ELSE IF Len(strs) = 1 THEN strs[1]
    ELSE Join(SubSeq(strs, 1, Len(strs) - 1), sep) \o sep \o strs[Len(strs)]

FormatContextForPrompt_noEmptyGuard(chunks) ==
    Join([i \in 1..Len(chunks.items) |-> Block(chunks.items[i], i - 1)], Separator)

FormatContextForPrompt(chunks) ==
    IF ~chunks.isArray \/ Len(chunks.items) = 0
    THEN Sentinel
    ELSE Join([i \in 1..Len(chunks.items) |-> Block(chunks.items[i], i - 1)],
              Separator)

\* The longest result sequence formatted.
MaxResults == 3

\* The results getContext can hand over: a text and a printed similarity.
FormatResults ==
    [text : {"a", "c"},
     similarity : {[nan |-> FALSE, milli |-> 1000], [nan |-> FALSE, milli |-> 707],
                   [nan |-> TRUE, milli |-> 0]}]

FormatInputs ==
    {Absent} \cup {ArrayOf(items) : items \in UNION {[1..k -> FormatResults] : k \in 0..MaxResults}}

\* A caller is about to call formatContextForPrompt(arg).
InitFormat ==
    /\ documentChunks = <<>>
    /\ initialized = FALSE
    /\ build = [b \in Builds |-> IdleBuild]
    /\ query = [q \in Queries |-> IdleQuery]
    /\ request = [r \in Requests |-> IdleRequest]
    /\ \E arg \in FormatInputs :
          call = [pc |-> "called", fn |-> "formatContextForPrompt",
                  arg |-> arg, ret |-> <<>>]

\* The call runs and returns.
FormatReturns ==
    /\ call.pc = "called"
    /\ call.fn = "formatContextForPrompt"
    /\ call' = [call EXCEPT !.pc = "returned", !.ret = FormatContextForPrompt(call.arg)]
    /\ UNCHANGED <<documentChunks, initialized, build, query, request>>

NextFormat == FormatReturns

SpecFormat == InitFormat /\ [][NextFormat]_vars

----------------------------------------------------------------------------
(* C12 - the sentinel.                                                     *)

Formatted == call.pc = "returned" /\ call.fn = "formatContextForPrompt"

\* C12: formatContextForPrompt returns for every argument; for an empty or
\* absent result sequence it returns the sentinel, and for a non-empty one
\* something else.
C12_SentinelIffEmpty ==
    /\ (call.pc = "called" /\ call.fn = "formatContextForPrompt") => ENABLED FormatReturns
    /\ Formatted =>
          (call.ret = Sentinel <=> (~call.arg.isArray \/ call.arg.items = <<>>))

\* The empty array formatted.
C12_Witness ==
    /\ Formatted
    /\ call.arg = ArrayOf(<<>>)
    /\ call.ret = Sentinel

----------------------------------------------------------------------------
(* C13 - the blocks.                                                       *)

\* C13: k results are rendered as k blocks in input order, the i-th labelled
\* i and carrying the i-th similarity and then the i-th text, with a
\* separator after each block but the last: k - 1 separators in all.
C13_BlocksInOrder ==
    (Formatted /\ call.arg.isArray /\ call.arg.items # <<>>) =>
        LET items == call.arg.items
            k == Len(items)
            ret == call.ret
        IN  /\ Len(ret) = 6 * k + (k - 1)
            /\ \A i \in 1..k :
                  LET o == 7 * (i - 1)
                  IN  /\ ret[o + 1] = Lit("[Context ")
                      /\ ret[o + 2] = Num(i)
                      /\ ret[o + 3] = Lit("] (Relevance: ")
                      /\ ret[o + 4] = Sim(items[i].similarity)
                      /\ ret[o + 5] = Lit(")\n")
                      /\ ret[o + 6] = Txt(items[i].text)
                      /\ i < k => ret[o + 7] = Separator[1]
            /\ Cardinality({j \in 1..Len(ret) : ret[j] = Separator[1]}) = k - 1

C13_Witness ==
    /\ Formatted
    /\ call.arg.isArray
    /\ Len(call.arg.items) = 3
    /\ call.arg.items[1] # call.arg.items[2]

----------------------------------------------------------------------------
(* splitIntoChunks(text, chunkSize, overlap), lines 60-84.                 *)
(* A string is the sequence of its characters.                             *)

Terminators == {".", "!", "?"}

\* The white space String.prototype.trim removes, as far as Alphabet has it.
WhiteSpace == {" "}

Alphabet == {"a", "b", " ", "."}

\* The longest text split.
MaxTextLen == 6

Texts == UNION {[1..n -> Alphabet] : n \in 0..MaxTextLen}
ChunkSizes == {2, 4}
Overlaps == {4, 5, 10}

\* The index of the first character at or after pos that is (want = TRUE) or
\* is not (want = FALSE) a terminator; Len(text) + 1 if there is none.
FirstFrom(text, pos, want) ==
    LET hits == {i \in pos..Len(text) : (text[i] \in Terminators) = want}
    IN  IF hits = {} THEN Len(text) + 1
        ELSE CHOOSE i \in hits : \A j \in hits : i <= j

\* Line 62: text.match(/[^.!?]+[.!?]+/g), as the intervals matched.  A match
\* starts at the first non-terminator at or after pos, runs over every
\* non-terminator after it and then over every terminator after those; a
\* run of non-terminators that reaches the end of the text matches nothing.
RECURSIVE MatchFrom(_, _)
MatchFrom(text, pos) ==
    LET from == FirstFrom(text, pos, FALSE)
        dot == FirstFrom(text, from, TRUE)
        next == FirstFrom(text, dot, FALSE)
    IN  IF from > Len(text) \/ dot > Len(text) THEN <<>>
        ELSE <<[from |-> from, to |-> next - 1]>> \o MatchFrom(text, next)

\* Line 62: ... || [text].
SentencesOf(text) ==
    LET m == MatchFrom(text, 1)
    IN  IF m = <<>> THEN <<text>>
        ELSE [i \in 1..Len(m) |-> SubSeq(text, m[i].from, m[i].to)]

\* String.prototype.trim.
Trim(str) ==
    LET ink == {i \in 1..Len(str) : str[i] \notin WhiteSpace}
    IN  IF ink = {} THEN <<>>
        ELSE SubSeq(str, CHOOSE i \in ink : \A j \in ink : i <= j,
                         CHOOSE i \in ink : \A j \in ink : i >= j)

\* Line 71: str.split(' ').
RECURSIVE SplitOnSpace(_)
SplitOnSpace(str) ==
    LET spaces == {i \in 1..Len(str) : str[i] = " "}
    IN  IF spaces = {} THEN <<str>>
        ELSE LET i == CHOOSE i \in spaces : \A j \in spaces : i <= j
             IN  <<SubSeq(str, 1, i - 1)>> \o SplitOnSpace(SubSeq(str, i + 1, Len(str)))

\* Line 73: words.slice(-overlapWords).  -0 is 0, so slice(-0) is the whole
\* array; a count above the length is the whole array as well.
SliceLast(words, overlapWords) ==
    IF overlapWords = 0 \/ overlapWords >= Len(words) THEN words
    ELSE SubSeq(words, Len(words) - overlapWords + 1, Len(words))

\* Lines 63-64, with the sentences that triggered a cut kept as history.
NoChunks == [chunks |-> <<>>, currentChunk |-> <<>>, cuts |-> <<>>]

SplitStep_noOverlap(st, sentence, chunkSize, overlap) ==
    IF Len(st.currentChunk \o sentence) > chunkSize /\ Len(st.currentChunk) > 0
    THEN [chunks |-> Append(st.chunks, Trim(st.currentChunk)),
          currentChunk |-> sentence,
          cuts |-> Append(st.cuts, sentence)]
    ELSE [st EXCEPT !.currentChunk = @ \o sentence]

\* Lines 67-76: the body of the loop, for one sentence.
SplitStep(st, sentence, chunkSize, overlap) ==
    IF Len(st.currentChunk \o sentence) > chunkSize /\ Len(st.currentChunk) > 0
    THEN LET words == SplitOnSpace(st.currentChunk)
             overlapWords == overlap \div 5
         IN  [chunks |-> Append(st.chunks, Trim(st.currentChunk)),
              currentChunk |-> Join(SliceLast(words, overlapWords), <<" ">>)
                                  \o <<" ">> \o sentence,
              cuts |-> Append(st.cuts, sentence)]
    ELSE [st EXCEPT !.currentChunk = @ \o sentence]

\* Line 66: the loop over the first n sentences.
RECURSIVE SplitLoop(_, _, _, _)
SplitLoop(sentences, n, chunkSize, overlap) ==
    IF n = 0 THEN NoChunks
    ELSE SplitStep(SplitLoop(sentences, n - 1, chunkSize, overlap),
                   sentences[n], chunkSize, overlap)

FinalFlush_unguarded(st) ==
    [st EXCEPT !.chunks = Append(@, Trim(st.currentChunk))]

\* Lines 79-81.
FinalFlush(st) ==
    IF Len(Trim(st.currentChunk)) > 0
    THEN [st EXCEPT !.chunks = Append(@, Trim(st.currentChunk))]
    ELSE st

\* The whole call; .chunks is what it returns.
SplitIntoChunks(text, chunkSize, overlap) ==
    LET sentences == SentencesOf(text)
    IN  FinalFlush(SplitLoop(sentences, Len(sentences), chunkSize, overlap))

\* A caller is about to call splitIntoChunks(text, chunkSize, overlap).
InitChunks ==
    /\ documentChunks = <<>>
    /\ initialized = FALSE
    /\ build = [b \in Builds |-> IdleBuild]
    /\ query = [q \in Queries |-> IdleQuery]
    /\ request = [r \in Requests |-> IdleRequest]
    /\ \E text \in Texts, chunkSize \in ChunkSizes, overlap \in Overlaps :
          call = [pc |-> "called", fn |-> "splitIntoChunks",
                  arg |-> [text |-> text, chunkSize |-> chunkSize, overlap |-> overlap],
                  ret |-> <<>>, cuts |-> <<>>]

\* The call runs and returns.
SplitReturns ==
    /\ call.pc = "called"
    /\ call.fn = "splitIntoChunks"
    /\ LET st == SplitIntoChunks(call.arg.text, call.arg.chunkSize, call.arg.overlap)
       IN  call' = [call EXCEPT !.pc = "returned", !.ret = st.chunks, !.cuts = st.cuts]
    /\ UNCHANGED <<documentChunks, initialized, build, query, request>>

NextChunks == SplitReturns

SpecChunks == InitChunks /\ [][NextChunks]_vars

----------------------------------------------------------------------------
(* C14 - C17: the chunks of a text.                                        *)

Chunked == call.pc = "returned" /\ call.fn = "splitIntoChunks"

IsSubstring(part, str) ==
    \E i \in 0..(Len(str) - Len(part)) : SubSeq(str, i + 1, i + Len(part)) = part

\* The sentence-like units of a text: what the pattern matches, and the text
\* that follows the last match when it is not blank.
UnitsOf(text) ==
    LET m == MatchFrom(text, 1)
        rest == SubSeq(text, IF m = <<>> THEN 1 ELSE m[Len(m)].to + 1, Len(text))
    IN  [i \in 1..Len(m) |-> SubSeq(text, m[i].from, m[i].to)]
            \o (IF Trim(rest) = <<>> THEN <<>> ELSE <<rest>>)

\* C14: every unit of the text, the trailing one included, is found in a
\* chunk, and the chunks holding the units follow the order of the units.
C14_ChunkCoverage ==
    Chunked =>
        LET units == UnitsOf(call.arg.text)
        IN  \E at \in [1..Len(units) -> 1..Len(call.ret)] :
                /\ \A i \in 1..Len(units) : IsSubstring(Trim(units[i]), call.ret[at[i]])
                /\ \A i, j \in 1..Len(units) : i < j => at[i] <= at[j]

\* C15: no chunk is longer than chunkSize plus the length of a sentence; the
\* longest sentence of the text is allowed for every chunk.
C15_ChunkSizeBound ==
    Chunked =>
        LET sentences == SentencesOf(call.arg.text)
        IN  \A n \in 1..Len(call.ret) :
                \E s \in 1..Len(sentences) :
                    Len(call.ret[n]) <= call.arg.chunkSize + Len(sentences[s])

\* C16: no chunk is empty; the empty text has no chunks; a text that is not
\* blank and has no terminator has one chunk, the text without the white
\* space around it.
C16_NoEmptyChunk ==
    Chunked =>
        LET text == call.arg.text
        IN  /\ \A n \in 1..Len(call.ret) : call.ret[n] # <<>>
            /\ text = <<>> => call.ret = <<>>
            /\ (Trim(text) # <<>> /\ \A i \in 1..Len(text) : text[i] \notin Terminators)
                  => call.ret = <<Trim(text)>>

C16_Witness ==
    /\ Chunked
    /\ call.arg.text = <<" ", "a", " ", "b">>
    /\ call.ret = << <<"a", " ", "b">> >>

\* C17: each chunk after the first starts with a non-empty tail of the chunk
\* before it, then a space, then the sentence that triggered the cut.
C17_OverlapPresent ==
    Chunked =>
        /\ Len(call.cuts) >= Len(call.ret) - 1
        /\ \A n \in 1..(Len(call.ret) - 1) :
              LET prev == call.ret[n]
                  this == call.ret[n + 1]
              IN  \E f \in 1..Len(prev) :
                      LET head == SubSeq(prev, Len(prev) - f + 1, Len(prev))
                                      \o <<" ">> \o call.cuts[n]
                      IN  /\ Len(head) <= Len(this)
                          /\ SubSeq(this, 1, Len(head)) = head

C17_Witness ==
    /\ Chunked
    /\ Len(call.ret) = 2
    /\ call.arg.overlap = 5
    /\ call.ret[1] = <<"a", " ", "b", ".">>
    /\ call.ret[2] = <<"b", ".", " ", "a", ".">>

----------------------------------------------------------------------------
(* GeminiService: generateRecipeRecommendations and handleChatMessage.     *)
(* The constructor starts one build, initializeRAG(), and does not wait    *)
(* for it; requests read ragService.initialized when they arrive.          *)

RequestKinds == {"recipes", "chat", "knowledge"}

\* The topK of the getContext call: lines 40, 131 and 172.
RequestTopK(kind) == IF kind = "recipes" THEN 2 ELSE 3

\* What the caller gets when something inside the try block throws: the
\* catch of lines 117-120 returns [], those of lines 160-163 and 190-193 throw.
Caught(kind) == IF kind = "recipes" THEN "emptyList" ELSE "error"

Request_noReadyTest(r, kind, text) ==
    /\ request[r].pc = "idle"
    /\ \A c \in Requests : c < r => request[c].pc # "idle"
    /\ request' = [request EXCEPT ![r] =
          IF NotInitialized
          THEN [@ EXCEPT !.pc = "done", !.kind = kind, !.query = text,
                         !.wasReady = initialized, !.asked = TRUE,
                         !.retrievalFailed = TRUE, !.notInitialized = TRUE,
                         !.outcome = Caught(kind)]
          ELSE [@ EXCEPT !.pc = "context", !.kind = kind, !.query = text,
                         !.wasReady = initialized, !.asked = TRUE]]
    /\ UNCHANGED <<documentChunks, initialized, build, query, call>>

\* A request arrives: lines 31-40, 124-131 or 166-172, up to the first await
\* or to the return.  The handler reads ragService.initialized.  If it is
\* false, askAboutKnowledge returns its notice and the two others build the
\* prompt without context and call generateContent.  If it is true, getContext
\* is called: retrieveRelevantChunks makes the test of line 107 and either
\* throws, which the catch of the handler turns into its failure, or waits
\* for the query embedding.  Nothing runs between the two tests.
Request(r, kind, text) ==
    /\ request[r].pc = "idle"
    /\ \A c \in Requests : c < r => request[c].pc # "idle"
    /\ request' = [request EXCEPT ![r] =
          IF ~initialized
          THEN IF kind = "knowledge"
               THEN [@ EXCEPT !.pc = "done", !.kind = kind, !.query = text,
                              !.outcome = "unavailable"]
               ELSE [@ EXCEPT !.pc = "generate", !.kind = kind, !.query = text,
                              !.generated = TRUE]
          ELSE IF NotInitialized
               THEN [@ EXCEPT !.pc = "done", !.kind = kind, !.query = text,
                              !.wasReady = TRUE, !.asked = TRUE,
                              !.retrievalFailed = TRUE, !.notInitialized = TRUE,
                              !.outcome = Caught(kind)]
               ELSE [@ EXCEPT !.pc = "context", !.kind = kind, !.query = text,
                              !.wasReady = TRUE, !.asked = TRUE]]
    /\ UNCHANGED <<documentChunks, initialized, build, query, call>>

\* The query embedding has answered: getContext returns, the context is
\* formatted into the prompt and generateContent is called.
ContextReturned(r) ==
    /\ request[r].pc = "context"
    /\ LET queryEmbedding == EmbeddingValues(request[r].query)
       IN  \E sorted \in SortOutcomes(Scores(queryEmbedding)) :
             request' = [request EXCEPT ![r] =
                [@ EXCEPT !.pc = "generate",
                          !.relevantChunks = Slice(sorted, RequestTopK(request[r].kind)),
                          !.retrieved = TRUE,
                          !.generated = TRUE]]
    /\ UNCHANGED <<documentChunks, initialized, build, query, call>>

\* The query embedding has thrown: getContext rethrows (lines 125-128) and the
\* catch of the request handler ends the request.
ContextFailed(r) ==
    /\ request[r].pc = "context"
    /\ request' = [request EXCEPT ![r] =
          [@ EXCEPT !.pc = "done", !.retrievalFailed = TRUE,
                    !.outcome = Caught(request[r].kind)]]
    /\ UNCHANGED <<documentChunks, initialized, build, query, call>>

\* generateContent has answered: lines 85-115, 157-159 or 187-189.  The recipes are
\* returned when the answer parses as an array, and [] otherwise.
GenerateReturned(r, parses) ==
    /\ request[r].pc = "generate"
    /\ request' = [request EXCEPT ![r] =
          [@ EXCEPT !.pc = "done",
                    !.outcome = IF request[r].kind # "recipes" THEN "text"
                                ELSE IF parses THEN "recipes" ELSE "emptyList"]]
    /\ UNCHANGED <<documentChunks, initialized, build, query, call>>

\* generateContent has thrown.
GenerateFailed(r) ==
    /\ request[r].pc = "generate"
    /\ request' = [request EXCEPT ![r] =
          [@ EXCEPT !.pc = "done", !.outcome = Caught(request[r].kind)]]
    /\ UNCHANGED <<documentChunks, initialized, build, query, call>>

\* The context text of the prompt: lines 37-42 and 129-133.
ContextText(r) ==
    IF request[r].retrieved
    THEN FormatContextForPrompt(ArrayOf(ContextOf(request[r].relevantChunks)))
    ELSE <<>>

NextGemini ==
    \/ \E d \in Docs : Initialize(1, d)
    \/ \E b \in Builds : PdfExtracted(b)
    \/ \E b \in Builds : PdfFailed(b)
    \/ \E b \in Builds : EmbeddingReturned(b)
    \/ \E b \in Builds : EmbeddingFailed(b)
    \/ \E b \in Builds : SleepElapsed(b)
    \/ \E r \in Requests, kind \in RequestKinds, text \in QueryTexts : Request(r, kind, text)
    \/ \E r \in Requests : ContextReturned(r)
    \/ \E r \in Requests : ContextFailed(r)
    \/ \E r \in Requests, parses \in BOOLEAN : GenerateReturned(r, parses)
    \/ \E r \in Requests : GenerateFailed(r)

SpecGemini == Init /\ [][NextGemini]_vars

----------------------------------------------------------------------------
(* C18 - a retrieval failure inside a request.                             *)

\* C18: a request whose getContext call failed has still called the
\* generation model, without context, and ends with what the model gave.
C18_RetrievalFailureDegrades ==
    \A r \in Requests :
        (request[r].pc = "done" /\ request[r].kind \in {"recipes", "chat"}
            /\ request[r].retrievalFailed) =>
            /\ request[r].generated
            /\ ContextText(r) = <<>>
            /\ request[r].outcome \in {"recipes", "text"}

----------------------------------------------------------------------------
(* C19, C20 - the index under several initialize calls.                    *)

\* The chunks build b has pushed that are in the index.
PushedBy(b) == {i \in 1..Len(documentChunks) : documentChunks[i].by = b}

\* C19: a query is answered only from an index that holds no chunk of a
\* build still running.
C19_NoAnswerFromPartialIndex ==
    [][\A q \in Queries :
          (query[q].pc = "embed" /\ query'[q].pc = "done") =>
              \A b \in Builds : Running(b) => PushedBy(b) = {}]_vars

\* C20: the ids of the chunks in the index are pairwise distinct.
C20_IdsDistinct ==
    \A i, j \in 1..Len(documentChunks) :
        i # j => documentChunks[i].id # documentChunks[j].id

----------------------------------------------------------------------------
(* C21 - C23, C27: the steps of one initialize call.                       *)

\* The records of s that call b appended, in the order of s.
OfBuild(s, b) ==
    LET By(r) == r.by = b IN SelectSeq(s, By)

\* C21: call b issues the embedding call of chunk 0 first and that of chunk
\* i + 1 after that of chunk i; when it issues the call of chunk i its records
\* in the index are those of chunks 0..i-1, in order, and when the call of
\* chunk i returns the record of chunk i is appended; it completes with one
\* record per chunk.
C21_EmbeddingsInChunkOrder ==
    [][\A b \in Builds :
          LET before == build[b]
              after == build'[b]
              mine == OfBuild(documentChunks', b)
          IN  /\ (after.pc = "embed" /\ (before.pc # "embed" \/ after.i # before.i)) =>
                    /\ before.pc \in {"read", "sleep"}
                    /\ after.i = IF before.pc = "read" THEN 0 ELSE before.i + 1
                    /\ after.i < Len(after.chunks)
                    /\ mine = RecordsOf(b, SubSeq(after.chunks, 1, after.i))
              /\ (before.pc = "embed" /\ after.pc \in {"sleep", "done"}) =>
                    /\ after.i = before.i
                    /\ mine = RecordsOf(b, SubSeq(before.chunks, 1, before.i + 1))
                    /\ documentChunks' = Append(documentChunks, mine[Len(mine)])
              /\ (before.pc # "done" /\ after.pc = "done") =>
                    mine = RecordsOf(b, after.chunks)]_vars

\* A three-chunk build completed while another call appended records too.
C21_Witness ==
    \E b, c \in Builds :
        /\ b # c
        /\ build[b].pc = "done"
        /\ Len(build[b].chunks) = 3
        /\ OfBuild(documentChunks, b) = RecordsOf(b, build[b].chunks)
        /\ OfBuild(documentChunks, c) # <<>>

\* C22: every embedding call but the first of a call follows a completed
\* sleep, a sleep is started only after the embedding call of a chunk that is
\* not the last, and the call ends right after the embedding of the last.
C22_SleepBetweenEmbeddings ==
    [][\A b \in Builds :
          LET before == build[b]
              after == build'[b]
          IN  /\ (after.pc = "embed" /\ (before.pc # "embed" \/ after.i # before.i)
                    /\ after.i > 0) => before.pc = "sleep"
              /\ (after.pc = "sleep" /\ before.pc # "sleep") =>
                    /\ before.pc = "embed"
                    /\ before.i < Len(before.chunks) - 1
              /\ (before.pc = "embed" /\ before.i = Len(before.chunks) - 1
                    /\ after.pc # "embed") => after.pc \in {"done", "rejected"}]_vars

\* The second sleep of a three-chunk build.
C22_Witness ==
    \E b \in Builds :
        /\ build[b].pc = "sleep"
        /\ build[b].i = 1
        /\ Len(build[b].chunks) = 3

\* C23: a call that rejects at the read leaves the ready flag and the index
\* as they are, and has no record in the index: it made no embedding call.
C23_ReadFailureChangesNothing ==
    [][\A b \in Builds :
          (build[b].pc = "read" /\ build'[b].pc = "rejected") =>
              /\ build'[b].error = "read"
              /\ initialized' = initialized
              /\ documentChunks' = documentChunks
              /\ OfBuild(documentChunks', b) = <<>>
              /\ build'[b].chunks = <<>>]_vars

\* A rebuild of a ready, non-empty index rejected at the read.
C23_Witness ==
    \E b \in Builds :
        /\ build[b].pc = "rejected"
        /\ build[b].error = "read"
        /\ build[b].wasReady
        /\ initialized
        /\ documentChunks # <<>>

\* C27: once initialized is true it is true in every later state.
C27_ReadyIsMonotone == [][initialized => initialized']_vars

\* A rebuild of a ready index that failed at an embedding call.
C27_Witness ==
    \E b \in Builds :
        /\ EmbeddingAborted(b)
        /\ build[b].wasReady
        /\ initialized

----------------------------------------------------------------------------
(* C24, C25 - queries on a ready index.                                    *)

SomeQueryFailed == \E f \in Queries : query[f].pc = "embedError"

\* C24: when the embedding call of a query fails, that query ends with the
\* error and without a result, and nothing else changes: not the ready flag,
\* not the index, not another query; a query called after the failure gets
\* past the ready test, and a query answered after it gets the ranking of the
\* index.
C24_QueryFailureIsLocal ==
    [][\A q \in Queries :
          /\ (query[q].pc = "embed" /\ query'[q].pc = "embedError") =>
                /\ initialized' = initialized
                /\ documentChunks' = documentChunks
                /\ query'[q].res = <<>>
                /\ \A r \in Queries : r # q => query'[r] = query[r]
          /\ (SomeQueryFailed /\ query[q].pc = "idle" /\ query'[q].pc # "idle") =>
                query'[q].pc = "embed"
          /\ (SomeQueryFailed /\ query[q].pc = "embed" /\ query'[q].pc = "done") =>
                query'[q].res =
                    Slice(StableSort(Scores(EmbeddingValues(query[q].query))),
                          query[q].topK)]_vars

\* A query answered with results after another query failed.
C24_Witness ==
    \E f, q \in Queries :
        /\ query[f].pc = "embedError"
        /\ query[q].pc = "done"
        /\ query[q].res # <<>>
        /\ initialized

\* C25: on a ready index with queries only, the index and the ready flag stay
\* as the build left them, and every answered query has the result it has
\* when it runs alone on that index.
C25_QueriesReadOnly ==
    /\ initialized
    /\ documentChunks = RecordsOf(1, build[1].chunks)
    /\ \A q \in Queries :
          Answered(q) =>
              /\ query[q].snap = RecordsOf(1, build[1].chunks)
              /\ query[q].res =
                    Slice(StableSort(Scores(EmbeddingValues(query[q].query))),
                          query[q].topK)

\* One query answered from a two-chunk index while another is in flight.
C25_Witness ==
    \E q, r \in Queries :
        /\ query[q].pc = "done"
        /\ Len(query[q].res) = 2
        /\ query[q].res[1].id = 1
        /\ query[r].pc = "embed"

----------------------------------------------------------------------------
(* C26, C29 - GeminiService and the ready flag.                            *)

\* C26: a recipe or chat request that arrives while the index is not ready
\* calls no getContext and calls the generation model with an empty context;
\* after a failed startup build a request can still arrive and is served so.
C26_NotReadyServedWithoutContext ==
    /\ \A r \in Requests :
          (request[r].pc # "idle" /\ request[r].kind \in {"recipes", "chat"}
              /\ ~request[r].wasReady) =>
                /\ ~request[r].asked
                /\ ~request[r].retrievalFailed
                /\ request[r].generated
                /\ ContextText(r) = <<>>
                /\ request[r].pc \in {"generate", "done"}
    /\ \A r \in Requests :
          (build[1].pc = "rejected" /\ request[r].pc = "idle"
              /\ \A c \in Requests : c < r => request[c].pc # "idle") =>
                \A kind \in {"recipes", "chat"} : ENABLED Request(r, kind, "a")

\* A chat request answered by the model after the startup build failed.
C26_Witness ==
    \E r \in Requests :
        /\ build[1].pc = "rejected"
        /\ ~initialized
        /\ request[r].pc = "done"
        /\ request[r].kind = "chat"
        /\ request[r].generated
        /\ request[r].outcome = "text"

\* C29: no getContext call of a request throws the not-initialized error.
C29_NoNotInitializedInRequest ==
    \A r \in Requests : request[r].asked => ~request[r].notInitialized

\* A knowledge request whose getContext call returned, on an index built
\* from the empty document.
C29_Witness ==
    \E r \in Requests :
        /\ request[r].kind = "knowledge"
        /\ request[r].asked
        /\ request[r].retrieved
        /\ documentChunks = <<>>

----------------------------------------------------------------------------
(* C28 - the build completes.                                              *)
(* One initialize call on a fresh service, with queries arriving at any    *)
(* time.  Every await of the call settles: the promise of readFile / pdf,  *)
(* of generateEmbedding and of sleep is eventually resolved or rejected    *)
(* and the event loop then runs the continuation.                          *)

NextLive ==
    \/ \E d \in Docs : Initialize(1, d)
    \/ PdfExtracted(1)
    \/ PdfFailed(1)
    \/ EmbeddingReturned(1)
    \/ EmbeddingFailed(1)
    \/ SleepElapsed(1)
    \/ \E q \in Queries, text \in QueryTexts, topK \in TopKs : GetContext(q, text, topK)
    \/ \E q \in Queries : QueryEmbeddingReturned(q)
    \/ \E q \in Queries : QueryEmbeddingFailed(q)

SpecLive ==
    /\ Init
    /\ [][NextLive]_vars
    /\ WF_vars(PdfExtracted(1) \/ PdfFailed(1))
    /\ WF_vars(EmbeddingReturned(1) \/ EmbeddingFailed(1))
    /\ WF_vars(SleepElapsed(1))

\* The call has completed and the index is its document, chunk by chunk.
BuiltExactly ==
    /\ build[1].pc = "done"
    /\ initialized
    /\ documentChunks = RecordsOf(1, PdfChunks(build[1].doc))

\* C28: if no await of the call is rejected, the call, once started,
\* completes, and from then on the service is ready and the index holds one
\* record per chunk of the document, with ids 0..n-1 in chunk order.
C28_BuildCompletes ==
    [](build[1].pc # "rejected") => ((build[1].pc # "idle") ~> []BuiltExactly)

\* The three-chunk document built.
C28_Witness ==
    /\ BuiltExactly
    /\ Len(documentChunks) = 3
    /\ \A i \in 1..3 : documentChunks[i].id = i - 1

====
